---- MODULE Spec2Model ----
(***************************************************************************)
(* The webhook task pipeline of src/hooks/hook-example.py: the bottle      *)
(* handlers post_task and get_tasks, the polling loop runtasks, and the    *)
(* MongoDB collection `tasks` they share.                                  *)
(***************************************************************************)
EXTENDS Integers, Sequences, FiniteSets, TLC

(* ------------------------------ bounds --------------------------------- *)

\* Most documents the collection holds in a run (the code has no limit).
MaxTasks == 2

\* Most consecutive idle polls of one worker (the code has no limit).
MaxIdle == 2

(* ----------------------- constants of the program ---------------------- *)

API_KEY == "123456789"

\* t += 10: what one idle poll adds to the heartbeat counter.
IdleStep == 10

\* The secrets a caller may put in the URL.
Secrets == {API_KEY, "wrong"}

\* The processes that may run runtasks(); the deployment of the source runs
\* one (BaselineWorker), and nothing in the code prevents starting another.
Workers == {"w1", "w2"}

BaselineWorker == "w1"

\* Python's None, as a record so that it compares with documents.
None == [none |-> TRUE]

(* ------------------------------ payloads ------------------------------- *)

T1 == "2017-01-01T12:00:00.000"

T2 == "2017-05-05T01:31:13.738647"

CallbackUrl == "http://example/cb"

\* One element of the payload's images list.  image_b64 is "jpeg" for base64
\* text of an image PIL opens and "garbage" for text it does not.
Image(timestamp, b64) ==
    [type |-> "image/jpeg", size |-> <<640, 480>>,
     timestamp |-> timestamp, image_b64 |-> b64]

\* Two good images with distinct timestamps.
PayloadGood ==
    [user_id |-> "u1", camera |-> "c1", callback_url |-> CallbackUrl,
     images |-> <<Image(T1, "jpeg"), Image(T2, "jpeg")>>]

\* The second image does not decode.
PayloadBadImage ==
    [user_id |-> "u2", camera |-> "c1", callback_url |-> CallbackUrl,
     images |-> <<Image(T1, "jpeg"), Image(T2, "garbage")>>]

\* Two good images carrying the same timestamp.
PayloadSameStamp ==
    [user_id |-> "u1", camera |-> "c2", callback_url |-> CallbackUrl,
     images |-> <<Image(T1, "jpeg"), Image(T1, "jpeg")>>]

\* No 'images' key.
PayloadNoImages ==
    [user_id |-> "u2", camera |-> "c2", callback_url |-> CallbackUrl]

\* No 'callback_url' key.
PayloadNoCallback ==
    [user_id |-> "u3", camera |-> "c1", images |-> <<Image(T1, "jpeg")>>]

\* No 'user_id' key.
PayloadNoUser ==
    [camera |-> "c3", callback_url |-> CallbackUrl,
     images |-> <<Image(T1, "jpeg")>>]

Payloads ==
    {PayloadGood, PayloadBadImage, PayloadSameStamp, PayloadNoImages,
     PayloadNoCallback, PayloadNoUser}

\* A request body: no bytes, bytes that are not JSON, or the JSON text of a
\* payload object.
EmptyBody == [kind |-> "empty"]

MalformedBody == [kind |-> "malformed"]

JsonBody(p) == [kind |-> "json", value |-> p]

Bodies == {EmptyBody, MalformedBody} \cup {JsonBody(p) : p \in Payloads}

\* The bodies submitted where the worker's progress is followed: a payload
\* the computation succeeds on and two it raises on.
FairBodies ==
    {JsonBody(PayloadGood), JsonBody(PayloadBadImage), JsonBody(PayloadNoImages)}

\* The bodies submitted where several workers run.
FewBodies == {EmptyBody, JsonBody(PayloadGood)}

(* ------------------------------- state --------------------------------- *)

VARIABLES
    tasks,      \* the collection db['tasks']: documents in insertion order
    response,   \* the last HTTP response: [status, body]
    pc,         \* pc[w]: where worker w stands in runtasks
    task,       \* task[w]: runtasks' local `task`
    t,          \* t[w]: runtasks' local `t`
    payload,    \* payload[w]: runtasks' local `payload`
    posts,      \* posts[i]: callback POSTs issued so far for document i
    wire,       \* the last callback POST: [url, json, outcome]
    stdout,     \* stdout[w]: the last line worker w printed
    idle        \* idle[w]: the idle polls of w since it started or last
                \* found a task (kept for the record; the code has no such count)

vars == <<tasks, response, pc, task, t, payload, posts, wire, stdout, idle>>

(* --------------------------- pure functions ---------------------------- *)

\* The outcome of a Python call: it returns a value or raises.
Returned(v) == [value |-> v]

Raised(exc) == [exc |-> exc]

IsRaised(r) == "exc" \in DOMAIN r

\* d[k] = v on a dict.
SetItem(d, k, v) == (k :> v) @@ d

\* The labels compute_labels gives every image (probabilities in hundredths).
CatDog ==
    [cat |-> [probability |-> 93, polygon |-> <<>>],
     dog |-> [probability |-> 88, polygon |-> <<>>]]

\* One turn of compute_labels' loop: the four subscripts raise KeyError on
\* a missing key, b64decode / Image.open raise on bytes that are no image.
label_image(image) ==
    IF {"type", "size", "timestamp", "image_b64"} \subseteq DOMAIN image
    THEN IF image.image_b64 = "jpeg"
         THEN Returned(CatDog)
         ELSE Raised("IOError: cannot identify image file")
    ELSE Raised("KeyError")

RECURSIVE compute_loop(_, _)
compute_loop(images, labels) ==
    IF images = <<>>
    THEN Returned(labels)
    ELSE LET r == label_image(Head(images))
         IN  IF IsRaised(r)
             THEN r
             ELSE compute_loop(Tail(images),
                               SetItem(labels, Head(images).timestamp, r.value))

\* compute_labels returning after the first image.
compute_labels_first_only(images) ==
    IF images = <<>> THEN Returned(<<>>) ELSE compute_loop(<<Head(images)>>, <<>>)

compute_labels(images) == compute_loop(images, <<>>)

\* The try block of runtasks up to the POST: the two subscripts, the label
\* computation and the payload.
build_payload(request) ==
    IF "images" \notin DOMAIN request
    THEN Raised("KeyError: 'images'")
    ELSE IF "callback_url" \notin DOMAIN request
    THEN Raised("KeyError: 'callback_url'")
    ELSE LET r == compute_labels(request.images)
         IN  IF IsRaised(r)
             THEN r
             ELSE Returned([status |-> "success", labels |-> r.value])

\* traceback.format_exc()
format_exc(exc) == "Traceback (most recent call last): " \o exc

\* The except branch leaving the task pending, to be tried again.
mark_error_requeue(doc, exc) == [doc EXCEPT !.status = "pending"]

\* The except branch: task['status'] = 'error'; task['traceback'] = ...
mark_error(doc, exc) ==
    SetItem([doc EXCEPT !.status = "error"], "traceback", format_exc(exc))

\* task['status'] = 'completed'
mark_completed(doc) == [doc EXCEPT !.status = "completed"]

(* ---------------------------- the collection --------------------------- *)

\* insert as an upsert on the request: a stored document with the same
\* request is replaced by the new pending one.
insert_upsert(coll, doc) ==
    IF \E i \in DOMAIN coll : coll[i].request = doc.request
    THEN [i \in DOMAIN coll |->
            IF coll[i].request = doc.request THEN SetItem(doc, "_id", i) ELSE coll[i]]
    ELSE Append(coll, SetItem(doc, "_id", Len(coll) + 1))

\* tasks.insert(doc): the store gives the document its _id.
insert(coll, doc) == Append(coll, SetItem(doc, "_id", Len(coll) + 1))

\* tasks.find({'status': status}), in the collection's order.
find(coll, status) == SelectSeq(coll, LAMBDA d : d.status = status)

\* find_one with the status filter lost: any document may come back.
find_one_unfiltered(coll, status) == {coll[i] : i \in DOMAIN coll}

\* The documents tasks.find_one({'status': status}) may return; none of
\* them when the set is empty.
find_one(coll, status) == {coll[i] : i \in {j \in DOMAIN coll : coll[j].status = status}}

\* update as a merge ($set): the fields doc lacks keep their stored value.
update_merge(coll, id, doc) ==
    [i \in DOMAIN coll |-> IF coll[i]._id = id THEN doc @@ coll[i] ELSE coll[i]]

\* tasks.update({'_id': id}, doc): the matching document is replaced whole.
update(coll, id, doc) ==
    [i \in DOMAIN coll |-> IF coll[i]._id = id THEN doc ELSE coll[i]]

(* ------------------------------ HTTP side ------------------------------ *)

NoResponse == [status |-> 0, body |-> ""]

Ok200 == [status |-> 200, body |-> "ok"]

InvalidKey400 == [status |-> 400, body |-> "Invalid API Key"]

\* What bottle answers when a handler raises.
Error500 == [status |-> 500, body |-> "Internal Server Error"]

\* task['request']['user_id'] + '/' + task['request']['camera']
entry(doc) ==
    IF {"user_id", "camera"} \subseteq DOMAIN doc.request
    THEN Returned(doc.request.user_id \o "/" \o doc.request.camera)
    ELSE Raised("KeyError")

\* repr of a list of the unicode strings json.loads gives (Python 2)
RECURSIVE repr_items(_)
repr_items(list) ==
    IF list = <<>> THEN ""
    ELSE "u'" \o Head(list) \o "'"
         \o (IF Tail(list) = <<>> THEN "" ELSE ", " \o repr_items(Tail(list)))

repr(list) == "[" \o repr_items(list) \o "]"

\* post_task with the secret compared only after the insertion.
post_task_late_check(secret, body) ==
    /\ IF body.kind = "json"
       THEN /\ Len(tasks) < MaxTasks
            /\ tasks' = insert(tasks, [request |-> body.value, status |-> "pending"])
            /\ posts' = Append(posts, 0)
       ELSE UNCHANGED <<tasks, posts>>
    /\ response' = IF secret # API_KEY THEN InvalidKey400
                   ELSE IF body.kind = "malformed" THEN Error500 ELSE Ok200
    /\ UNCHANGED <<pc, task, t, payload, wire>>
    /\ UNCHANGED <<stdout, idle>>

\* post_task made to wait until no worker is busy with a task.
post_task_waits(secret, body) ==
    /\ \A w \in Workers : pc[w] \in {"poll", "sleep"}
    /\ IF secret # API_KEY
       THEN /\ response' = InvalidKey400
            /\ UNCHANGED <<tasks, posts>>
       ELSE IF body.kind = "empty"
       THEN /\ response' = Ok200
            /\ UNCHANGED <<tasks, posts>>
       ELSE IF body.kind # "json"
       THEN /\ response' = Error500
            /\ UNCHANGED <<tasks, posts>>
       ELSE /\ Len(tasks) < MaxTasks
            /\ tasks' = insert(tasks, [request |-> body.value, status |-> "pending"])
            /\ posts' = Append(posts, 0)
            /\ response' = Ok200
    /\ UNCHANGED <<pc, task, t, payload, wire>>
    /\ UNCHANGED <<stdout, idle>>

\* post_task without the `if body:` test: json.loads raises on no bytes.
post_task_no_body_test(secret, body) ==
    /\ IF secret # API_KEY
       THEN /\ response' = InvalidKey400
            /\ UNCHANGED <<tasks, posts>>
       ELSE IF body.kind # "json"
       THEN /\ response' = Error500
            /\ UNCHANGED <<tasks, posts>>
       ELSE /\ Len(tasks) < MaxTasks
            /\ tasks' = insert(tasks, [request |-> body.value, status |-> "pending"])
            /\ posts' = Append(posts, 0)
            /\ response' = Ok200
    /\ UNCHANGED <<pc, task, t, payload, wire>>
    /\ UNCHANGED <<stdout, idle>>

\* POST /tasks/<secret>
post_task(secret, body) ==
    /\ IF secret # API_KEY
       THEN /\ response' = InvalidKey400
            /\ UNCHANGED <<tasks, posts>>
       ELSE IF body.kind = "empty"
       THEN /\ response' = Ok200
            /\ UNCHANGED <<tasks, posts>>
       ELSE IF body.kind # "json"
       THEN /\ response' = Error500           \* json.loads raises ValueError
            /\ UNCHANGED <<tasks, posts>>
       ELSE /\ Len(tasks) < MaxTasks
            /\ tasks' = insert(tasks, [request |-> body.value, status |-> "pending"])
            /\ posts' = Append(posts, 0)
            /\ response' = Ok200
    /\ UNCHANGED <<pc, task, t, payload, wire>>
    /\ UNCHANGED <<stdout, idle>>

\* GET /tasks/<secret>
get_tasks(secret) ==
    /\ IF secret # API_KEY
       THEN response' = InvalidKey400
       ELSE LET all_tasks == find(tasks, "pending")
                listed == [i \in DOMAIN all_tasks |-> entry(all_tasks[i])]
            IN  IF \E i \in DOMAIN listed : IsRaised(listed[i])
                THEN response' = Error500
                ELSE response' =
                       [status |-> 200,
                        body |-> repr([i \in DOMAIN listed |-> listed[i].value])]
    /\ UNCHANGED <<tasks, pc, task, t, payload, posts, wire>>
    /\ UNCHANGED <<stdout, idle>>

(* ------------------------------ runtasks ------------------------------- *)

\* '... %i ...' % t
Heartbeat(n) == "... " \o ToString(n) \o " ..."

\* How requests.post may end: a response with a 2xx status, a response with
\* another status, or an exception (connection error, timeout).
PostOutcomes == {"2xx", "non2xx", "raise"}

\* The poll as an atomic claim (find_one_and_update): the selected document
\* is marked in the store.
poll_found_claims(w) ==
    /\ pc[w] = "poll"
    /\ \E doc \in find_one(tasks, "pending") :
          /\ task' = [task EXCEPT ![w] = doc]
          /\ tasks' = update(tasks, doc._id, [doc EXCEPT !.status = "in-flight"])
          /\ t' = [t EXCEPT ![w] = 0]
          /\ pc' = [pc EXCEPT ![w] = "compute"]
    /\ UNCHANGED <<response, payload, posts, wire>>
    /\ stdout' = [stdout EXCEPT ![w] = "processing task"]
    /\ idle' = [idle EXCEPT ![w] = 0]

\* poll_found without line 108: the counter keeps running over a found task.
poll_found_no_reset(w) ==
    /\ pc[w] = "poll"
    /\ \E doc \in find_one(tasks, "pending") :
          /\ task' = [task EXCEPT ![w] = doc]
          /\ pc' = [pc EXCEPT ![w] = "compute"]
    /\ UNCHANGED <<tasks, response, t, payload, posts, wire>>
    /\ stdout' = [stdout EXCEPT ![w] = "processing task"]
    /\ idle' = [idle EXCEPT ![w] = 0]

\* Line 105, a pending document found; lines 108-111.
poll_found(w) ==
    /\ pc[w] = "poll"
    /\ \E doc \in find_one(tasks, "pending") :
          /\ task' = [task EXCEPT ![w] = doc]
          /\ t' = [t EXCEPT ![w] = 0]
          /\ pc' = [pc EXCEPT ![w] = "compute"]
    /\ UNCHANGED <<tasks, response, payload, posts, wire>>
    /\ stdout' = [stdout EXCEPT ![w] = "processing task"]
    /\ idle' = [idle EXCEPT ![w] = 0]

\* The idle branch without the sleep: the loop polls again at once.
poll_idle_busy(w) ==
    /\ pc[w] = "poll"
    /\ find_one(tasks, "pending") = {}
    /\ t[w] < MaxIdle * IdleStep
    /\ t' = [t EXCEPT ![w] = t[w] + IdleStep]
    /\ UNCHANGED <<tasks, response, pc, task, payload, posts, wire>>
    /\ stdout' = [stdout EXCEPT ![w] = Heartbeat(t[w])]
    /\ idle' = [idle EXCEPT ![w] = idle[w] + 1]

\* Line 105, nothing pending; lines 125-127.
poll_idle(w) ==
    /\ pc[w] = "poll"
    /\ find_one(tasks, "pending") = {}
    /\ t[w] < MaxIdle * IdleStep
    /\ t' = [t EXCEPT ![w] = t[w] + IdleStep]
    /\ pc' = [pc EXCEPT ![w] = "sleep"]
    /\ UNCHANGED <<tasks, response, task, payload, posts, wire>>
    /\ stdout' = [stdout EXCEPT ![w] = Heartbeat(t[w])]
    /\ idle' = [idle EXCEPT ![w] = idle[w] + 1]

\* A sleep that does not return.
sleep_stuck(w) ==
    /\ pc[w] = "sleep"
    /\ UNCHANGED vars

\* Line 128.
sleep(w) ==
    /\ pc[w] = "sleep"
    /\ pc' = [pc EXCEPT ![w] = "poll"]
    /\ UNCHANGED <<tasks, response, task, t, payload, posts, wire>>
    /\ UNCHANGED <<stdout, idle>>

\* compute without the except branch: the exception ends the loop.
compute_uncaught(w) ==
    /\ pc[w] = "compute"
    /\ LET r == build_payload(task[w].request)
       IN  IF IsRaised(r)
           THEN /\ pc' = [pc EXCEPT ![w] = "crashed"]
                /\ UNCHANGED payload
           ELSE /\ payload' = [payload EXCEPT ![w] = r.value]
                /\ pc' = [pc EXCEPT ![w] = "post"]
    /\ UNCHANGED <<tasks, response, task, t, posts, wire>>
    /\ stdout' = IF IsRaised(build_payload(task[w].request))
                 THEN stdout
                 ELSE [stdout EXCEPT ![w] = "    posting payload"]
    /\ UNCHANGED idle

\* compute with the except branch posting {status: "error"} to the callback.
compute_notifies(w) ==
    /\ pc[w] = "compute"
    /\ LET r == build_payload(task[w].request)
       IN  IF IsRaised(r)
           THEN /\ task' = [task EXCEPT ![w] = mark_error(task[w], r.exc)]
                /\ pc' = [pc EXCEPT ![w] = "update"]
                /\ posts' = [posts EXCEPT ![task[w]._id] = posts[task[w]._id] + 1]
                /\ wire' = [url |-> CallbackUrl, json |-> [status |-> "error"],
                            outcome |-> "2xx"]
                /\ UNCHANGED payload
           ELSE /\ payload' = [payload EXCEPT ![w] = r.value]
                /\ pc' = [pc EXCEPT ![w] = "post"]
                /\ UNCHANGED <<task, posts, wire>>
    /\ UNCHANGED <<tasks, response, t>>
    /\ stdout' = IF IsRaised(build_payload(task[w].request))
                 THEN stdout
                 ELSE [stdout EXCEPT ![w] = "    posting payload"]
    /\ UNCHANGED idle

\* Lines 112-117, and 121-123 when one of them raises.
compute(w) ==
    /\ pc[w] = "compute"
    /\ LET r == build_payload(task[w].request)
       IN  IF IsRaised(r)
           THEN /\ task' = [task EXCEPT ![w] = mark_error(task[w], r.exc)]
                /\ pc' = [pc EXCEPT ![w] = "update"]
                /\ UNCHANGED payload
           ELSE /\ payload' = [payload EXCEPT ![w] = r.value]
                /\ pc' = [pc EXCEPT ![w] = "post"]
                /\ UNCHANGED task
    /\ UNCHANGED <<tasks, response, t, posts, wire>>
    /\ stdout' = IF IsRaised(build_payload(task[w].request))
                 THEN stdout
                 ELSE [stdout EXCEPT ![w] = "    posting payload"]
    /\ UNCHANGED idle

\* post with raise_for_status(): a non-2xx answer raises as well.
post_raise_for_status(w) ==
    /\ pc[w] = "post"
    /\ \E outcome \in PostOutcomes :
          /\ wire' = [url |-> task[w].request.callback_url,
                      json |-> payload[w], outcome |-> outcome]
          /\ posts' = [posts EXCEPT ![task[w]._id] = posts[task[w]._id] + 1]
          /\ task' = [task EXCEPT ![w] =
                        IF outcome = "2xx"
                        THEN mark_completed(task[w])
                        ELSE mark_error(task[w], "HTTPError")]
    /\ pc' = [pc EXCEPT ![w] = "update"]
    /\ UNCHANGED <<tasks, response, t, payload>>
    /\ stdout' = IF task'[w].status = "completed"
                 THEN [stdout EXCEPT ![w] = "    done!"]
                 ELSE stdout
    /\ UNCHANGED idle

\* post with the POST outside the try block: its exception ends the loop.
post_uncaught(w) ==
    /\ pc[w] = "post"
    /\ \E outcome \in PostOutcomes :
          /\ wire' = [url |-> task[w].request.callback_url,
                      json |-> payload[w], outcome |-> outcome]
          /\ posts' = [posts EXCEPT ![task[w]._id] = posts[task[w]._id] + 1]
          /\ task' = [task EXCEPT ![w] =
                        IF outcome = "raise" THEN task[w] ELSE mark_completed(task[w])]
          /\ pc' = [pc EXCEPT ![w] = IF outcome = "raise" THEN "crashed" ELSE "update"]
    /\ UNCHANGED <<tasks, response, t, payload>>
    /\ stdout' = IF task'[w].status = "completed"
                 THEN [stdout EXCEPT ![w] = "    done!"]
                 ELSE stdout
    /\ UNCHANGED idle

\* post with one retry after a non-2xx answer.
post_with_retry(w) ==
    /\ pc[w] = "post"
    /\ \E outcome \in PostOutcomes :
          /\ wire' = [url |-> task[w].request.callback_url,
                      json |-> payload[w], outcome |-> outcome]
          /\ posts' = [posts EXCEPT ![task[w]._id] =
                         posts[task[w]._id] + (IF outcome = "non2xx" THEN 2 ELSE 1)]
          /\ task' = [task EXCEPT ![w] =
                        IF outcome = "raise"
                        THEN mark_error(task[w], "ConnectionError")
                        ELSE mark_completed(task[w])]
    /\ pc' = [pc EXCEPT ![w] = "update"]
    /\ UNCHANGED <<tasks, response, t, payload>>
    /\ stdout' = IF task'[w].status = "completed"
                 THEN [stdout EXCEPT ![w] = "    done!"]
                 ELSE stdout
    /\ UNCHANGED idle

\* Lines 118-120, and 121-123 when requests.post raises.
post(w) ==
    /\ pc[w] = "post"
    /\ \E outcome \in PostOutcomes :
          /\ wire' = [url |-> task[w].request.callback_url,
                      json |-> payload[w], outcome |-> outcome]
          /\ posts' = [posts EXCEPT ![task[w]._id] = posts[task[w]._id] + 1]
          /\ task' = [task EXCEPT ![w] =
                        IF outcome = "raise"
                        THEN mark_error(task[w], "ConnectionError")
                        ELSE mark_completed(task[w])]
    /\ pc' = [pc EXCEPT ![w] = "update"]
    /\ UNCHANGED <<tasks, response, t, payload>>
    /\ stdout' = IF task'[w].status = "completed"
                 THEN [stdout EXCEPT ![w] = "    done!"]
                 ELSE stdout
    /\ UNCHANGED idle

\* The write-back addressed by status instead of _id: the first pending
\* document is the one replaced.
store_by_status(w) ==
    /\ pc[w] = "update"
    /\ LET first == CHOOSE i \in DOMAIN tasks :
                       /\ tasks[i].status = "pending"
                       /\ \A j \in 1..(i - 1) : tasks[j].status # "pending"
       IN  tasks' = [tasks EXCEPT ![first] = task[w]]
    /\ task' = [task EXCEPT ![w] = None]
    /\ payload' = [payload EXCEPT ![w] = None]
    /\ pc' = [pc EXCEPT ![w] = "poll"]
    /\ UNCHANGED <<response, t, posts, wire>>
    /\ UNCHANGED <<stdout, idle>>

\* Line 124.  The locals are dead until the next poll assigns them and are
\* cleared here.
store(w) ==
    /\ pc[w] = "update"
    /\ tasks' = update(tasks, task[w]._id, task[w])
    /\ task' = [task EXCEPT ![w] = None]
    /\ payload' = [payload EXCEPT ![w] = None]
    /\ pc' = [pc EXCEPT ![w] = "poll"]
    /\ UNCHANGED <<response, t, posts, wire>>
    /\ UNCHANGED <<stdout, idle>>

\* One step of the loop of worker w.
runtasks(w) ==
    \/ poll_found(w)
    \/ poll_idle(w)
    \/ sleep(w)
    \/ compute(w)
    \/ post(w)
    \/ store(w)

(* --------------------------- specifications ---------------------------- *)

Init ==
    /\ tasks = <<>>
    /\ response = NoResponse
    /\ pc = [w \in Workers |-> "poll"]
    /\ task = [w \in Workers |-> None]
    /\ t = [w \in Workers |-> 0]
    /\ payload = [w \in Workers |-> None]
    /\ posts = <<>>
    /\ wire = None
    /\ stdout = [w \in Workers |-> ""]
    /\ idle = [w \in Workers |-> 0]

\* The deployment of the source: the HTTP server and one worker.
Next ==
    \/ \E secret \in Secrets : get_tasks(secret)
    \/ \E secret \in Secrets, body \in Bodies : post_task(secret, body)
    \/ runtasks(BaselineWorker)

Spec == Init /\ [][Next]_vars

\* The same with every worker of Workers running.
NextWorkers ==
    \/ \E secret \in Secrets : get_tasks(secret)
    \/ \E secret \in Secrets, body \in FewBodies : post_task(secret, body)
    \/ \E w \in Workers : runtasks(w)

SpecWorkers == Init /\ [][NextWorkers]_vars

\* The deployment of the source with a worker process that keeps running
\* (each step of the loop, once enabled, is taken), under the submissions
\* of FairBodies.
FairNext ==
    \/ \E secret \in Secrets : get_tasks(secret)
    \/ \E secret \in Secrets, body \in FairBodies : post_task(secret, body)
    \/ runtasks(BaselineWorker)

FairSpec == Init /\ [][FairNext]_vars /\ WF_vars(runtasks(BaselineWorker))

(* ------------------------------ vocabulary ----------------------------- *)

Statuses == {"pending", "completed", "error"}

Terminal == {"completed", "error"}

\* Worker w holds a document it selected and has not yet written back.
Processing(w) == pc[w] \in {"compute", "post", "update"}

\* The step of worker w that writes its document back (line 124).
StoreStep(w) == pc[w] = "update" /\ pc'[w] = "poll"

\* The step of worker w that issues the callback POST (line 118).
PostStep(w) == pc[w] = "post" /\ pc'[w] = "update"

(* -------------------------------- claims ------------------------------- *)

\* C1: two workers never hold the same document: of the workers that poll
\* while one task is pending, one obtains it and the others obtain none.
C1_NoDoubleClaim ==
    \A w1, w2 \in Workers :
        (w1 # w2 /\ Processing(w1) /\ Processing(w2))
            => task[w1]._id # task[w2]._id

\* C2: with one worker, every status is pending, completed or error, a
\* status only ever changes from pending to completed or to error, a
\* document that is completed or error never changes again, and the worker
\* only ever holds a document whose stored status is pending.
C2_StatusMonotonic ==
    [][/\ \A i \in DOMAIN tasks' : tasks'[i].status \in Statuses
       /\ \A i \in DOMAIN tasks :
             /\ i \in DOMAIN tasks'
             /\ tasks'[i].status # tasks[i].status
                   => tasks[i].status = "pending" /\ tasks'[i].status \in Terminal
             /\ tasks[i].status \in Terminal => tasks'[i] = tasks[i]
       /\ Processing(BaselineWorker)'
             => tasks'[task'[BaselineWorker]._id].status = "pending"]_vars

\* C2's case: the worker has brought one task to completed and another to
\* error and is polling again.
C2_Witness ==
    /\ pc[BaselineWorker] = "poll"
    /\ \E i, j \in DOMAIN tasks :
          tasks[i].status = "completed" /\ tasks[j].status = "error"

\* C3: a document whose stored status is completed or error is left exactly
\* as it is by every later write.
C3_TerminalWritesRejected ==
    [][\A i \in DOMAIN tasks :
          tasks[i].status \in Terminal => tasks'[i] = tasks[i]]_vars

\* C4: the store holds one task per submitted payload: a payload submitted
\* again adds no second document.
C4_IdempotentEnqueue ==
    \A i, j \in DOMAIN tasks : tasks[i].request = tasks[j].request => i = j

\* C5: a request of either handler whose secret is not the API key is
\* answered 400 "Invalid API Key" and leaves the store as it was, whatever
\* its body.
C5_InvalidKey ==
    [][\A secret \in Secrets \ {API_KEY} :
          /\ \A body \in Bodies :
                post_task(secret, body)
                    => response' = [status |-> 400, body |-> "Invalid API Key"]
                       /\ tasks' = tasks
          /\ get_tasks(secret)
                => response' = [status |-> 400, body |-> "Invalid API Key"]
                   /\ tasks' = tasks]_vars

\* C5's case: a request with a wrong secret was answered while the store
\* held a pending task.
C5_Witness ==
    /\ response = [status |-> 400, body |-> "Invalid API Key"]
    /\ \E i \in DOMAIN tasks : tasks[i].status = "pending"

\* C6: a submission with the API key and a payload appends one document,
\* pending and holding that payload, answers 200 "ok" and touches nothing
\* else; and it never waits for the worker: below the model's bound on the
\* store it is enabled in every state.
C6_AcceptedSubmission ==
    /\ [](\A p \in Payloads :
            Len(tasks) < MaxTasks => ENABLED post_task(API_KEY, JsonBody(p)))
    /\ [][\A p \in Payloads :
            post_task(API_KEY, JsonBody(p))
                => /\ Len(tasks') = Len(tasks) + 1
                   /\ SubSeq(tasks', 1, Len(tasks)) = tasks
                   /\ tasks'[Len(tasks')].request = p
                   /\ tasks'[Len(tasks')].status = "pending"
                   /\ response' = [status |-> 200, body |-> "ok"]
                   /\ UNCHANGED <<pc, task, t, payload>>]_vars

\* C6's case: a submission was accepted and its task is pending while the
\* worker is between the callback POST of another task and its write-back.
C6_Witness ==
    /\ pc[BaselineWorker] = "update"
    /\ posts[task[BaselineWorker]._id] = 1
    /\ response = [status |-> 200, body |-> "ok"]
    /\ \E i \in DOMAIN tasks :
          /\ i > task[BaselineWorker]._id
          /\ tasks[i].status = "pending"

\* C7: get_tasks with the API key answers 200 with one "<user_id>/<camera>"
\* entry per pending document, none for the others, and leaves the store as
\* it was.
C7_ListsPending ==
    [][get_tasks(API_KEY)
          => /\ tasks' = tasks
             /\ response'.status = 200
             /\ LET pending == SelectSeq(tasks, LAMBDA d : d.status = "pending")
                IN  response'.body =
                      repr([i \in DOMAIN pending |->
                              pending[i].request.user_id \o "/"
                                  \o pending[i].request.camera])]_vars

\* The timestamps of a request's images.
Timestamps(request) ==
    {request.images[k].timestamp : k \in DOMAIN request.images}

\* The label computation raises on this request.
ComputeRaises(request) == IsRaised(build_payload(request))

\* C8: when the label computation raises on a task the worker holds, that
\* task comes to be stored with status error and a non-empty traceback; and
\* the loop goes on: every task pending behind a failed one comes to be
\* completed or error.
C8_FailureIsolation ==
    /\ \A a \in 1..MaxTasks :
          (/\ pc[BaselineWorker] = "compute"
           /\ task[BaselineWorker]._id = a
           /\ ComputeRaises(task[BaselineWorker].request))
            ~> (/\ a \in DOMAIN tasks
                /\ tasks[a].status = "error"
                /\ "traceback" \in DOMAIN tasks[a]
                /\ tasks[a].traceback # "")
    /\ \A b \in 1..MaxTasks :
          (/\ b \in DOMAIN tasks
           /\ tasks[b].status = "pending"
           /\ \E a \in 1..(b - 1) : ComputeRaises(tasks[a].request))
            ~> (b \in DOMAIN tasks /\ tasks[b].status \in Terminal)

\* C8's case: the computation raised on task 1, which is stored as error
\* with its traceback, and task 2, submitted after it, is terminal too.
C8_Witness ==
    /\ Len(tasks) >= 2
    /\ ComputeRaises(tasks[1].request)
    /\ tasks[1].status = "error"
    /\ tasks[1].traceback # ""
    /\ tasks[2].status \in Terminal

\* C9: on a request whose images are all good and carry distinct timestamps
\* the computation leads to the POST; the POST goes to the request's
\* callback_url with {status: "success", labels: L}, the keys of L being
\* exactly the images' timestamps; and when that POST is answered 2xx the
\* write-back stores the task as completed.
C9_RoundTrip ==
    [][LET w == BaselineWorker
           request == task[w].request
           Good == /\ {"images", "callback_url"} \subseteq DOMAIN request
                   /\ \A k \in DOMAIN request.images :
                         request.images[k].image_b64 = "jpeg"
                   /\ Cardinality(Timestamps(request)) = Len(request.images)
       IN  /\ (pc[w] = "compute" /\ pc'[w] # "compute" /\ Good)
                 => pc'[w] = "post"
           /\ (PostStep(w) /\ Good)
                 => /\ wire'.url = request.callback_url
                    /\ wire'.json.status = "success"
                    /\ DOMAIN wire'.json = {"status", "labels"}
                    /\ DOMAIN wire'.json.labels = Timestamps(request)
           /\ (StoreStep(w) /\ Good /\ payload[w] # None /\ wire.outcome = "2xx")
                 => tasks'[task[w]._id].status = "completed"]_vars

\* C9's case: the labels of two images with distinct timestamps were
\* delivered and the task is stored as completed.
C9_Witness ==
    /\ wire # None
    /\ wire.outcome = "2xx"
    /\ DOMAIN wire.json.labels = {T1, T2}
    /\ \E i \in DOMAIN tasks :
          /\ tasks[i].status = "completed"
          /\ posts[i] = 1
          /\ Timestamps(tasks[i].request) = {T1, T2}

\* C10 as claimed: a task whose callback POST failed, by a non-2xx response
\* or by a transport failure, is stored as completed.
C10_DeliveryFailureCompletes ==
    [][LET w == BaselineWorker
       IN  (StoreStep(w) /\ payload[w] # None /\ wire.outcome # "2xx")
             => tasks'[task[w]._id].status = "completed"]_vars

\* C10 as amended: a task whose one callback POST was answered with a
\* non-2xx status is stored as completed; one whose POST raised (a transport
\* failure) is stored as error with the traceback.
C10_Amended ==
    [][LET w == BaselineWorker
           id == task[w]._id
       IN  /\ (StoreStep(w) /\ payload[w] # None /\ wire.outcome = "non2xx")
                 => /\ tasks'[id].status = "completed"
                    /\ "traceback" \notin DOMAIN tasks'[id]
                    /\ posts'[id] = 1
           /\ (StoreStep(w) /\ payload[w] # None /\ wire.outcome = "raise")
                 => /\ tasks'[id].status = "error"
                    /\ tasks'[id].traceback # ""
                    /\ posts'[id] = 1]_vars

\* C10's case: the last callback POST was answered non-2xx and its task is
\* stored as completed after that single POST.
C10_Witness ==
    /\ wire # None
    /\ wire.outcome = "non2xx"
    /\ pc[BaselineWorker] = "poll"
    /\ \E i \in DOMAIN tasks : tasks[i].status = "completed" /\ posts[i] = 1

\* C11: with one worker, a task is POSTed at most once, failed or not, and
\* a task that was POSTed and written back is never pending afterwards: a
\* failed POST is neither repeated nor does it put the task back.
C11_NoRollbackNoRetry ==
    [][\A i \in DOMAIN tasks :
          /\ posts'[i] <= 1
          /\ PostStep(BaselineWorker) /\ task[BaselineWorker]._id = i
                => posts[i] = 0 /\ task'[BaselineWorker].status \in Terminal
          /\ (posts[i] = 1 /\ tasks[i].status \in Terminal)
                => tasks'[i].status = tasks[i].status
          /\ (posts[i] = 1 /\ ~Processing(BaselineWorker))
                => tasks[i].status \in Terminal]_vars

\* C11's case: the POST of task 1 raised, the task is stored as error after
\* that single POST, and the worker has since taken up another task.
C11_Witness ==
    /\ Len(tasks) >= 2
    /\ wire # None
    /\ wire.outcome = "raise"
    /\ posts[1] = 1
    /\ posts[2] = 0
    /\ tasks[1].status = "error"
    /\ Processing(BaselineWorker)
    /\ task[BaselineWorker]._id = 2

\* C12: a computation that raises leaves the worker with the task marked
\* error and a non-empty traceback, and goes to the write-back without a POST;
\* a POST is issued only for a task whose payload was built, so a task whose
\* computation raises has no POST in the whole run.
C12_NoDeliveryOnFailure ==
    [][LET w == BaselineWorker
       IN  /\ (pc[w] = "compute" /\ pc'[w] # "compute"
                  /\ ComputeRaises(task[w].request))
                 => /\ pc'[w] = "update"
                    /\ task'[w].status = "error"
                    /\ task'[w].traceback # ""
                    /\ posts' = posts
                    /\ wire' = wire
           /\ PostStep(w)
                 => payload[w] # None /\ ~ComputeRaises(task[w].request)
           /\ \A i \in DOMAIN tasks' :
                 ComputeRaises(tasks'[i].request) => posts'[i] = 0]_vars

\* C12's case: a task whose computation raised is stored as error with its
\* traceback, without a POST, while another task was delivered.
C12_Witness ==
    \E i, j \in DOMAIN tasks :
        /\ ComputeRaises(tasks[i].request)
        /\ tasks[i].status = "error"
        /\ tasks[i].traceback # ""
        /\ posts[i] = 0
        /\ posts[j] = 1

\* C13: the worker is always at a line of the loop and, while it holds a
\* task, can take its next step; whatever is raised between lines 113 and
\* 118 (a missing 'images' or 'callback_url' key, a failing computation, a
\* failing POST) marks that task error, and the write-back changes that task
\* alone and returns to the poll.
C13_LoopSurvives ==
    /\ [](/\ pc[BaselineWorker] \in {"poll", "sleep", "compute", "post", "update"}
          /\ Processing(BaselineWorker) => ENABLED runtasks(BaselineWorker))
    /\ [][LET w == BaselineWorker
           IN  /\ (pc[w] = "compute" /\ pc'[w] # "compute"
                      /\ ComputeRaises(task[w].request))
                     => pc'[w] = "update" /\ task'[w].status = "error"
               /\ (PostStep(w) /\ wire'.outcome = "raise")
                     => task'[w].status = "error"
               /\ StoreStep(w)
                     => /\ tasks'[task[w]._id].status = task[w].status
                        /\ \A i \in DOMAIN tasks :
                              i # task[w]._id => tasks'[i] = tasks[i]]_vars

\* C13's case: one task failed on a missing key, another on the callback
\* POST, both are stored as error and the worker is polling.
C13_Witness ==
    /\ pc[BaselineWorker] = "poll"
    /\ \E i, j \in DOMAIN tasks :
          /\ tasks[i].status = "error"
          /\ "callback_url" \notin DOMAIN tasks[i].request
          /\ tasks[j].status = "error"
          /\ tasks[j].traceback = format_exc("ConnectionError")

\* A step of worker w.
WorkerStep(w) == pc'[w] # pc[w] \/ t'[w] # t[w] \/ task'[w] # task[w]

\* C14: a poll that selects nothing happens only with no task pending,
\* writes nothing to the store, issues no POST and leads to the sleep; with
\* nothing pending a poll can do nothing else; and the sleep leads back to
\* the poll, again without a store write or a POST.
C14_IdlePoll ==
    [][LET w == BaselineWorker
           NonePending == \A i \in DOMAIN tasks : tasks[i].status # "pending"
       IN  /\ (pc[w] = "poll" /\ WorkerStep(w) /\ pc'[w] # "compute")
                 => /\ NonePending
                    /\ pc'[w] = "sleep"
                    /\ tasks' = tasks /\ posts' = posts /\ wire' = wire
           /\ (pc[w] = "poll" /\ WorkerStep(w) /\ NonePending)
                 => pc'[w] = "sleep"
           /\ (pc[w] = "sleep" /\ WorkerStep(w))
                 => /\ pc'[w] = "poll"
                    /\ tasks' = tasks /\ posts' = posts /\ wire' = wire]_vars

\* C14's case: with every stored task terminal the worker has polled twice
\* in vain and is in its sleep.
C14_Witness ==
    /\ pc[BaselineWorker] = "sleep"
    /\ t[BaselineWorker] > IdleStep
    /\ tasks # <<>>
    /\ \A i \in DOMAIN tasks : tasks[i].status \in Terminal

\* C15: with a worker that keeps running, every pending task comes to be
\* completed or error, and from some point on every stored task is terminal
\* and the worker holds none.
C15_EventualProcessing ==
    /\ \A i \in 1..MaxTasks :
          (i \in DOMAIN tasks /\ tasks[i].status = "pending")
            ~> (i \in DOMAIN tasks /\ tasks[i].status \in Terminal)
    /\ <>[](/\ ~Processing(BaselineWorker)
            /\ \A i \in DOMAIN tasks : tasks[i].status \in Terminal)

\* C15's case: two tasks were submitted, one was completed and one failed,
\* and the worker is idle.
C15_Witness ==
    /\ Len(tasks) >= 2
    /\ tasks[1].status \in Terminal
    /\ tasks[2].status \in Terminal
    /\ tasks[1].status # tasks[2].status
    /\ pc[BaselineWorker] = "sleep"

\* C16: with any number of workers a stored task has a traceback exactly
\* when its status is error, and that traceback is not empty.
C16_TracebackIffError ==
    \A i \in DOMAIN tasks :
        /\ ("traceback" \in DOMAIN tasks[i]) <=> (tasks[i].status = "error")
        /\ tasks[i].status = "error" => tasks[i].traceback # ""

\* C16's case: two workers POSTed the same task; the one whose POST raised
\* wrote error with a traceback, the other then wrote completed, and the
\* stored task is completed.
C16_Witness ==
    /\ wire # None
    /\ wire.outcome = "raise"
    /\ \A w \in Workers : ~Processing(w)
    /\ \E i \in DOMAIN tasks : posts[i] = 2 /\ tasks[i].status = "completed"

\* C17: no step changes the _id or the request of a stored task: the
\* write-back stores the _id and the request the worker read, and each
\* task's _id stays its place in the order of insertion.
C17_RequestImmutable ==
    [][/\ \A i \in DOMAIN tasks :
             /\ i \in DOMAIN tasks'
             /\ tasks'[i]._id = tasks[i]._id
             /\ tasks'[i].request = tasks[i].request
       /\ \A i \in DOMAIN tasks' : tasks'[i]._id = i
       /\ StoreStep(BaselineWorker)
             => /\ task[BaselineWorker]._id = tasks[task[BaselineWorker]._id]._id
                /\ task[BaselineWorker].request
                     = tasks[task[BaselineWorker]._id].request]_vars

\* C17's case: two tasks with different requests are stored, the second was
\* processed and written back before the first, and each still holds the
\* payload submitted for it.
C17_Witness ==
    /\ Len(tasks) >= 2
    /\ tasks[1].request = PayloadGood
    /\ tasks[1].status = "pending"
    /\ tasks[2].request = PayloadNoImages
    /\ tasks[2].status = "error"

\* C18: a handler step leaves every stored task as it is and at most
\* appends one; a worker step neither adds nor removes a task and changes at
\* most the task the worker holds, in its write-back, and of that task only
\* the status and the traceback.
C18_DivisionOfAccess ==
    [][/\ ((\E secret \in Secrets : get_tasks(secret))
            \/ (\E secret \in Secrets, body \in Bodies : post_task(secret, body)))
             => /\ Len(tasks') \in {Len(tasks), Len(tasks) + 1}
                /\ SubSeq(tasks', 1, Len(tasks)) = tasks
       /\ (\E secret \in Secrets : get_tasks(secret)) => tasks' = tasks
       /\ runtasks(BaselineWorker)
             => /\ Len(tasks') = Len(tasks)
                /\ \A i \in DOMAIN tasks :
                      tasks'[i] # tasks[i]
                        => /\ pc[BaselineWorker] = "update"
                           /\ i = task[BaselineWorker]._id
                           /\ DOMAIN tasks'[i] \ {"traceback"} = DOMAIN tasks[i]
                           /\ \A k \in DOMAIN tasks[i] \ {"status"} :
                                 tasks'[i][k] = tasks[i][k]]_vars

\* C18's case: a submission was accepted while the store held a terminal
\* task, and the worker has since written back the newer task.
C18_Witness ==
    /\ Len(tasks) >= 2
    /\ tasks[1].status = "completed"
    /\ tasks[2].status = "error"
    /\ response = [status |-> 200, body |-> "ok"]

\* C19: with one worker no task is POSTed more than once, and every task
\* stored as completed was POSTed exactly once.
C19_AtMostOneDelivery ==
    \A i \in DOMAIN tasks :
        /\ posts[i] <= 1
        /\ tasks[i].status = "completed" => posts[i] = 1

\* C19's case: two tasks are stored as completed, each after its one POST.
C19_Witness ==
    /\ Len(tasks) >= 2
    /\ \A i \in DOMAIN tasks : tasks[i].status = "completed" /\ posts[i] = 1

\* C20: while the worker holds a task, the stored document is still pending
\* and has the fields of a task nobody selected, and a get_tasks answered
\* 200 at that point lists it with the other pending tasks.
C20_InFlightIsPending ==
    /\ [](Processing(BaselineWorker)
            => LET doc == tasks[task[BaselineWorker]._id]
               IN  /\ doc.status = "pending"
                   /\ DOMAIN doc = {"_id", "request", "status"}
                   /\ doc = [_id |-> doc._id, request |-> doc.request,
                             status |-> "pending"])
    /\ [][(/\ Processing(BaselineWorker)
            /\ get_tasks(API_KEY)
            /\ response'.status = 200)
             => LET held == task[BaselineWorker]._id
                    shown == SelectSeq(tasks,
                                 LAMBDA d : d.status = "pending" \/ d._id = held)
                IN  response'.body =
                      repr([i \in DOMAIN shown |->
                              shown[i].request.user_id \o "/"
                                  \o shown[i].request.camera])]_vars

\* C20's case: get_tasks has listed the one stored task while the worker
\* held it between the callback POST and the write-back.
C20_Witness ==
    /\ pc[BaselineWorker] = "update"
    /\ Len(tasks) = 1
    /\ posts[1] = 1
    /\ response = [status |-> 200, body |-> "[u'u1/c1']"]

\* A submission with the API key and a body that is not empty, answered
\* 200 "ok".
AcceptedWithBody ==
    \E body \in Bodies \ {EmptyBody} :
        post_task(API_KEY, body) /\ response' = [status |-> 200, body |-> "ok"]

IdlePoll(w) == pc[w] = "poll" /\ pc'[w] = "sleep"

\* Worker w polls and finds a pending task (lines 105-109).
FoundPoll(w) == pc[w] = "poll" /\ pc'[w] = "compute"

\* C22 as stated, the poll that prints counted among the idle polls: the
\* value printed on an idle poll is 10 times the number of consecutive idle
\* polls since the worker started or last found a task; t grows by 10 on
\* every idle poll and is 0 after a poll that finds a task.
C22_HeartbeatCountsThisPoll ==
    [][\A w \in Workers :
          /\ IdlePoll(w) => /\ stdout'[w] = "... " \o ToString(IdleStep * idle'[w]) \o " ..."
                            /\ t'[w] = t[w] + IdleStep
          /\ FoundPoll(w) => t'[w] = 0]_vars

\* C22, amended: the value printed on an idle poll is 10 times the number of
\* consecutive idle polls before it since the worker started or last found a
\* task, so the first of them prints 0; t grows by 10 on every idle poll,
\* after the print, is 0 after a poll that finds a task, changes in no other
\* step, and so is always 10 times the number of those idle polls so far.
C22_Amended ==
    /\ [](\A w \in Workers : t[w] = IdleStep * idle[w])
    /\ [][\A w \in Workers :
             /\ IdlePoll(w) => /\ stdout'[w] = "... " \o ToString(IdleStep * idle[w]) \o " ..."
                               /\ t'[w] = t[w] + IdleStep
             /\ FoundPoll(w) => t'[w] = 0
             /\ ~IdlePoll(w) /\ ~FoundPoll(w) => t'[w] = t[w]]_vars

\* C22's case: a task was found and stored, and the second idle poll after
\* it has printed its line.
C22_Witness ==
    /\ Len(tasks) > 0
    /\ \A i \in DOMAIN tasks : tasks[i].status \in Terminal
    /\ pc[BaselineWorker] = "sleep"
    /\ idle[BaselineWorker] = 2
    /\ stdout[BaselineWorker] = "... 10 ..."

====
